---- MODULE Spec2Model ----
(***************************************************************************)
(* Model of src/web/ControllerFromRunner.ts: the notebook controller that  *)
(* runs a chat cell (ControllerFromRunner) and the path-template expander  *)
(* (replacePathWithContent).                                               *)
(*                                                                         *)
(* Text is a sequence of one-character strings.  Cell indices are 0-based  *)
(* as in the source; the cell with index i is cells[i + 1].                *)
(***************************************************************************)
EXTENDS Integers, Sequences, FiniteSets, TLC

(***************************************************************************)
(* Bounds of the model.                                                    *)
(***************************************************************************)
MaxCells == 2
MaxCalls == 2
MaxRuns == 1
MaxPieces == 2
MaxReruns == 2
MaxEdits == 1

Min(a, b) == IF a < b THEN a ELSE b
Max(a, b) == IF a < b THEN b ELSE a

(***************************************************************************)
(* PART 1.  replacePathWithContent (lines 5-21)                            *)
(***************************************************************************)

\* \s of the regular expression, and the characters String.trimEnd strips.
WhiteSpace == {" ", "\n", "\t"}

\* The segment class [^\0<>:"|?*\\\/] of line 6: every character but these.
SegExcluded == {"<", ">", ":", "\"", "|", "?", "*", "\\", "/"}

\* The separator class [\\/] of line 6.
PathSep == {"\\", "/"}

\* [a-zA-Z] of line 6, restricted to the letters the model's texts use.
Letters == {"a", "b", "d", "x", "y", "A", "B"}

AllIn(s, S) == \A i \in 1..Len(s) : s[i] \in S

\* [^...]+(?:[\\/][^...]+)* : non-empty segments separated by single separators.
IsSegList(s) ==
    /\ Len(s) >= 1
    /\ \A i \in 1..Len(s) : s[i] \in PathSep \/ s[i] \notin SegExcluded
    /\ s[1] \notin PathSep
    /\ s[Len(s)] \notin PathSep
    /\ \A i \in 1..(Len(s) - 1) : ~(s[i] \in PathSep /\ s[i + 1] \in PathSep)

\* The capture group of line 6, anchored at both ends of s:
\* (?:[a-zA-Z]:|~)?[\\/]?SEG+(?:[\\/]SEG+)*
IsPathExpr(s) ==
    \E p \in {0, 1, 2} : \E q \in {0, 1} :
        /\ p + q < Len(s)
        /\ \/ p = 0
           \/ p = 1 /\ s[1] = "~"
           \/ p = 2 /\ s[1] \in Letters /\ s[2] = ":"
        /\ q = 1 => s[p + 1] \in PathSep
        /\ IsSegList(SubSeq(s, p + q + 1, Len(s)))

\* Index of the first ">" of s at or after position i, 0 when there is none.
\* Neither \s, nor the capture group, nor "%" matches ">", so a match that
\* starts at i ends at the first ">" after it.
RECURSIVE FirstGt(_, _)
FirstGt(s, i) ==
    IF i > Len(s) THEN 0
    ELSE IF s[i] = ">" THEN i
    ELSE FirstGt(s, i + 1)

\* The ways <%%\s*(capture)\s*%%> matches s from position i up to position g:
\* <<k, e>> with k characters of leading white space and the capture ending
\* at position e.
TokenParses(s, i, g) ==
    { ke \in (0..(g - i - 6)) \X ((i + 3)..(g - 3)) :
        LET k == ke[1]
            e == ke[2]
            b == i + 3           \* first position after "<%%"
            c == g - 3           \* last position before "%%>"
        IN  /\ b + k <= e
            /\ e <= c
            /\ AllIn(SubSeq(s, b, b + k - 1), WhiteSpace)
            /\ IsPathExpr(SubSeq(s, b + k, e))
            /\ AllIn(SubSeq(s, e + 1, c), WhiteSpace) }

\* The match of the regular expression of line 6 that starts at position i:
\* [found, start, end, text (match[0]), path (match[1])].  The quantifiers are
\* greedy: the leading \s* takes the most white space a match allows, and then
\* the capture group the most characters.
NoMatch == [found |-> FALSE, start |-> 0, end |-> 0, text |-> <<>>, path |-> <<>>]

MatchAt(s, i) ==
    IF ~(i + 2 <= Len(s) /\ s[i] = "<" /\ s[i + 1] = "%" /\ s[i + 2] = "%")
    THEN NoMatch
    ELSE LET g == FirstGt(s, i + 3)
         IN  IF g < i + 6 \/ s[g - 1] # "%" \/ s[g - 2] # "%" THEN NoMatch
             ELSE LET P == TokenParses(s, i, g)
                  IN  IF P = {} THEN NoMatch
                      ELSE LET k == CHOOSE k \in {ke[1] : ke \in P} :
                                        \A ke \in P : ke[1] <= k
                               e == CHOOSE e \in {ke[2] : ke \in {x \in P : x[1] = k}} :
                                        \A ke \in {x \in P : x[1] = k} : ke[2] <= e
                           IN  [found |-> TRUE, start |-> i, end |-> g,
                                text |-> SubSeq(s, i, g),
                                path |-> SubSeq(s, i + 3 + k, e)]

\* Array.from(content.matchAll(filePathRegex)), line 7: the non-overlapping
\* matches of s from position i on, leftmost first.
RECURSIVE MatchAllFrom(_, _)
MatchAllFrom(s, i) ==
    IF i > Len(s) THEN <<>>
    ELSE LET m == MatchAt(s, i)
         IN  IF m.found THEN <<m>> \o MatchAllFrom(s, m.end + 1)
             ELSE MatchAllFrom(s, i + 1)

matchAll(s) == MatchAllFrom(s, 1)

\* String.prototype.trimEnd, line 11.
RECURSIVE trimEnd(_)
trimEnd(s) ==
    IF Len(s) > 0 /\ s[Len(s)] \in WhiteSpace THEN trimEnd(SubSeq(s, 1, Len(s) - 1))
    ELSE s

\* path.normalize as far as the model's paths need it: runs of "/" collapse.
RECURSIVE CollapseSlashes(_)
CollapseSlashes(s) ==
    IF Len(s) <= 1 THEN s
    ELSE IF s[1] = "/" /\ s[2] = "/" THEN CollapseSlashes(Tail(s))
    ELSE <<s[1]>> \o CollapseSlashes(Tail(s))

\* path.join(basePath, p), line 11 (POSIX): the non-empty arguments joined by
\* "/" and normalized.  An absolute p is joined like any other.
pathJoin(basePath, p) ==
    IF p = <<>> THEN CollapseSlashes(basePath)
    ELSE IF basePath = <<>> THEN CollapseSlashes(p)
    ELSE CollapseSlashes(basePath \o <<"/">> \o p)

\* Position of the first occurrence of t in s, 0 when t does not occur in s.
IndexOf(s, t) ==
    LET hits == { i \in 1..(Len(s) - Len(t) + 1) : SubSeq(s, i, i + Len(t) - 1) = t }
    IN  IF hits = {} THEN 0 ELSE CHOOSE i \in hits : \A j \in hits : i <= j

\* GetSubstitution of String.prototype.replace with a string pattern (line 14):
\* in the replacement, $$ is "$", $& the matched text, $` the text before the
\* match and $' the text after it; every other character stands for itself.
RECURSIVE GetSubstitution(_, _, _, _)
GetSubstitution(repl, matched, before, after) ==
    IF repl = <<>> THEN <<>>
    ELSE IF repl[1] = "$" /\ Len(repl) >= 2 /\ repl[2] \in {"$", "&", "`", "'"}
         THEN (CASE repl[2] = "$" -> <<"$">>
                 [] repl[2] = "&" -> matched
                 [] repl[2] = "`" -> before
                 [] repl[2] = "'" -> after)
              \o GetSubstitution(SubSeq(repl, 3, Len(repl)), matched, before, after)
         ELSE <<repl[1]>> \o GetSubstitution(Tail(repl), matched, before, after)

\* content.replace(pattern, repl) with a string pattern, line 14: the FIRST
\* occurrence of pattern in content is replaced; none, content is returned.
StringReplace(content, pattern, repl) ==
    LET pos == IndexOf(content, pattern)
    IN  IF pos = 0 THEN content
        ELSE LET before == SubSeq(content, 1, pos - 1)
                 after == SubSeq(content, pos + Len(pattern), Len(content))
             IN  before \o GetSubstitution(repl, pattern, before, after) \o after

\* fs.promises.readFile(absolutePath), line 13, on the file system fsys (a
\* function from the paths of the readable files to their contents).
Readable(fsys, absolutePath) == absolutePath \in DOMAIN fsys

\* Line 11: the path that is read for a token's path.
absolutePathOf(basePath, filePath) == pathJoin(basePath, trimEnd(filePath))

\* Faulty variant: a failed read removes the token from the text.
OnReadErrorDropToken(content, text) == StringReplace(content, text, <<>>)

\* Lines 15-17: the text after a failed read (the catch leaves content alone).
OnReadError(content, text) == content

\* One iteration of the loop of lines 9-18 on st = [content, warnings, reads]:
\* reads lists the paths given to readFile, in order.
ExpandOne(st, match, basePath, fsys) ==
    LET filePath == match.path
        absolutePath == absolutePathOf(basePath, filePath)
    IN  IF Readable(fsys, absolutePath)
        THEN [st EXCEPT !.content = StringReplace(st.content, match.text, fsys[absolutePath]),
                        !.reads = Append(st.reads, absolutePath)]
        ELSE [st EXCEPT !.content = OnReadError(st.content, match.text),
                        !.warnings = Append(st.warnings, filePath),
                        !.reads = Append(st.reads, absolutePath)]

RECURSIVE ExpandLoop(_, _, _, _, _)
ExpandLoop(st, matches, n, basePath, fsys) ==
    IF n > Len(matches) THEN st
    ELSE ExpandLoop(ExpandOne(st, matches[n], basePath, fsys), matches, n + 1, basePath, fsys)

\* replacePathWithContent(content, basePath), lines 5-21: the returned text,
\* the warnings shown and the paths read, in order.
replacePathWithContent(content, basePath, fsys) ==
    ExpandLoop([content |-> content, warnings |-> <<>>, reads |-> <<>>],
               matchAll(content), 1, basePath, fsys)

(***************************************************************************)
(* PART 2.  The document, the editor and the execution handle              *)
(***************************************************************************)

VARIABLES
    cells,        \* the notebook: a sequence of [id, kind, lang, text]
    focus,        \* index of the editor's focused cell (where insertCodeCellBelow inserts)
    nextId,       \* identity of the next cell the host creates
    outputs,      \* cell id -> the output entries the cell shows
    files,        \* the file system: path -> content
    warnings,     \* the warnings shown (vscode.window.showWarningMessage), in order
    pc,           \* where the controller is
    cell,         \* id of cells.at(-1), the cell the run was triggered on
    activeIndex, nextIndex, nextCell, lastCell, nextIsAssistant,
    rawMessages, messages,
    success,      \* the flag of line 50
    err,          \* what the catch of line 142 caught ("none" when nothing was thrown)
    execution,    \* the NotebookCellExecution: [cell, started, ended, success]
    cancelled,    \* execution.token.isCancellationRequested
    calls,        \* callbacks the runner has called in this run
    runs,         \* runs started so far
    log,          \* the host commands and the runner call of this run, in order
    doc0,         \* the document when the run started
    outputs0,     \* the cells' outputs when the run started
    dropped,      \* appendOutput calls of this run that returned at line 102
    hist,         \* the runner's calls of clearOutput and appendOutput in this run, in order
    prev,         \* the runs that ended before this one: [cell, lastCell, log, success]
    edits,        \* cells inserted or removed by another editor
    expansion,    \* the call of replacePathWithContent under way (line 83)
    reads,        \* the readFile calls of this run, in the order they were issued
    xPc, xContent, xBase, xResult   \* a call of replacePathWithContent on its own

docVars == <<cells, focus, nextId, outputs>>
runVars == <<cell, activeIndex, nextIndex, nextCell, lastCell, nextIsAssistant,
             rawMessages, messages, success, err, execution, cancelled, calls,
             runs, log, doc0, outputs0, dropped, hist, prev, edits, expansion, reads>>
xVars == <<xPc, xContent, xBase, xResult>>
vars == <<docVars, files, warnings, pc, runVars, xVars, hist, prev, edits, expansion, reads>>

\* The texts of the model.
TokA == <<"<", "%", "%", "a", "%", "%", ">">>
TokB == <<"<", "%", "%", " ", "b", " ", "%", "%", ">">>
TokAbs == <<"<", "%", "%", "/", "d", "/", "a", "%", "%", ">">>
PathA == <<"/", "d", "/", "a">>
PathB == <<"/", "d", "/", "b">>

\* path.dirname(notebook.uri.fsPath), lines 24-26, for the model's notebook.
getNotebookDirectoryPath == <<"/", "d">>

\* The cells a document is made of before the controller runs.
CellKinds ==
    { [kind |-> "code", lang |-> "user", text |-> TokA],
      [kind |-> "code", lang |-> "assistant", text |-> <<"o">>],
      [kind |-> "markup", lang |-> "markdown", text |-> <<"m">>] }

\* The languages the host may give a new code cell: one that is neither of
\* the tags the controller sets.
NewCellLangs == {"python"}

\* What the runner may pass to appendOutput.
Chunks == {<<"y">>}

\* The identities of cells: those of the document and those of the cells that
\* the runs and another editor may insert.
IdCap == MaxCells + 2 * (MaxRuns + MaxReruns) + MaxEdits
Ids == 1..IdCap

WithIds(shape) ==
    [i \in 1..Len(shape) |->
        [id |-> i, kind |-> shape[i].kind, lang |-> shape[i].lang, text |-> shape[i].text]]

Documents ==
    UNION { { WithIds(shape) : shape \in [1..n -> CellKinds] } : n \in 1..MaxCells }

\* NotebookDocument.cellAt(index): the index is adjusted to the notebook.
cellAt(doc, index) == doc[Max(0, Min(index, Len(doc) - 1)) + 1]

\* The index of the cell with identity id, -1 when the document has none.
IndexOfCell(doc, id) ==
    IF \E i \in 1..Len(doc) : doc[i].id = id
    THEN (CHOOSE i \in 1..Len(doc) : doc[i].id = id) - 1
    ELSE -1

\* "notebook.cell.insertCodeCellBelow" (lines 60-62, 131-133): a new, empty code
\* cell right below the focused cell.
insertCodeCellBelow(doc, at, id, lang) ==
    SubSeq(doc, 1, at + 1)
        \o <<[id |-> id, kind |-> "code", lang |-> lang, text |-> <<>>]>>
        \o SubSeq(doc, at + 2, Len(doc))

\* "notebook.cell.changeLanguage" with a range {start, end} and a language
\* (lines 63-67, 134-138).
changeLanguage(doc, start, end, lang) ==
    [i \in 1..Len(doc) |->
        IF start <= i - 1 /\ i - 1 < end THEN [doc[i] EXCEPT !.lang = lang] ELSE doc[i]]

\* cell.document.getText() of the cell with identity id.
TextOfCell(doc, id) ==
    IF IndexOfCell(doc, id) < 0 THEN <<>> ELSE doc[IndexOfCell(doc, id) + 1].text

\* A WorkspaceEdit applied: the cell with identity id has the text given.
SetText(doc, id, text) ==
    [i \in 1..Len(doc) |-> IF doc[i].id = id THEN [doc[i] EXCEPT !.text = text] ELSE doc[i]]

\* Faulty variant: the execution is created for the cell at A + 1.
ExecutionCellResponse(trigger, response) == response

\* Line 46: the cell the execution is created for.
ExecutionCell(trigger, response) == trigger

\* Faulty variant: the flag starts true.
InitialSuccessTrue == TRUE

\* Line 50.
InitialSuccess == FALSE

\* Faulty variant: a response cell is inserted only below a last cell.
NeedsResponseCellOnlyLast(last, nextAssistant) == last

\* Faulty variant: no response cell is ever inserted.
NeedsResponseCellNever(last, nextAssistant) == FALSE

\* Faulty variant: a response cell is inserted in every run.
NeedsResponseCellAlways(last, nextAssistant) == TRUE

\* Line 59.
NeedsResponseCell(last, nextAssistant) == last \/ ~nextAssistant

\* Faulty variant: no filter on the kind of the cell.
IsContentBearingAll(c) == TRUE

\* Line 74.
IsContentBearing(c) == c.kind = "code"

\* Line 73: notebook.getCells(new NotebookRange(0, activeIndex + 1)).
getCells(doc, start, end) == SubSeq(doc, start + 1, Min(end, Len(doc)))

\* Lines 72-78.
ExtractMessages(doc, active) ==
    LET kept == SelectSeq(getCells(doc, 0, active + 1), IsContentBearing)
    IN  [i \in 1..Len(kept) |-> [content |-> kept[i].text, role |-> kept[i].lang]]

\* Faulty variant: clearOutput returns early when the token is signalled, as
\* appendOutput does.
clearOutputUnlessCancelled(text) == IF cancelled THEN text ELSE <<>>

\* Lines 87-98: the new text of the response cell.
clearOutput(text) == <<>>

\* Faulty variant: the token is not consulted.
appendOutputAlways(text, content, isCancellationRequested) == text \o content

\* Faulty variant: the edit replaces the text of the cell.
appendOutputReplacing(text, content, isCancellationRequested) ==
    IF isCancellationRequested THEN text ELSE content

\* Faulty variant: the edit inserts at the start of the text.
appendOutputAtStart(text, content, isCancellationRequested) ==
    IF isCancellationRequested THEN text ELSE content \o text

\* Lines 100-112: the new text of the response cell.
appendOutput(text, content, isCancellationRequested) ==
    IF isCancellationRequested THEN text ELSE text \o content

\* Faulty variant: the trailing cell is appended before the runner is called.
AfterExpansionAppendFirst(last) == IF last THEN "postInsert" ELSE "runner"

\* Lines 85-121: what follows the expansion loop is the call of the runner.
AfterExpansion(last) == "runner"

\* Faulty variant: the trailing cell is never appended.
AppendsUserCellNever(last) == FALSE

\* Faulty variant: a trailing cell is appended after every run.
AppendsUserCellAlways(last) == TRUE

\* Line 130.
AppendsUserCell(last) == last

\* Faulty variant: no finally, the execution is never ended.
EndExecutionNever(ex, flag) == ex

\* Faulty variant: the execution is ended as successful whatever the flag.
EndExecutionTrue(ex, flag) == [ex EXCEPT !.ended = @ + 1, !.success = TRUE]

\* Line 150: execution.end(success, Date.now()).
EndExecution(ex, flag) == [ex EXCEPT !.ended = @ + 1, !.success = flag]

\* Faulty variant: the entry is logged to the console only.
AppendExecutionOutputNone(outs, ex, entry) == outs

\* Lines 144-148 and 114-119: execution.appendOutput(...), on the cell the
\* execution was created for.
AppendExecutionOutput(outs, ex, entry) == [outs EXCEPT ![ex.cell] = Append(@, entry)]

Event(ev, phase, ok) == [ev |-> ev, phase |-> phase, ok |-> ok]

(***************************************************************************)
(* PART 3.  ControllerFromRunner (lines 38-152), one action per stretch of *)
(* code between two awaits                                                 *)
(***************************************************************************)

\* The file system of the controller's runs.
ControllerFiles == (PathA :> <<"A">>)

NoExecution == [cell |-> 0, started |-> 0, ended |-> 0, success |-> FALSE]

\* No call of replacePathWithContent is under way.
NoExpansion ==
    [open |-> FALSE, matches |-> <<>>, issued |-> 0, pending |-> {},
     st |-> [content |-> <<>>, warnings |-> <<>>, reads |-> <<>>]]

\* Faulty variant: the reads of a text are issued without waiting (Promise.all).
MayIssueReadAlways(pending) == TRUE

\* Line 13: the await suspends the loop until the read has settled.
MayIssueRead(pending) == pending = {}

\* The state before the first run: the document doc is open in the editor
\* and the files are fsys.
InitWith(doc, fsys) ==
    /\ cells = doc
    /\ focus = 0
    /\ nextId = Len(cells) + 1
    /\ outputs = [i \in Ids |-> IF i <= Len(cells) /\ cells[i].kind = "code"
                                THEN <<"old">> ELSE <<>>]
    /\ files = fsys
    /\ warnings = <<>>
    /\ pc = "idle"
    /\ cell = 0 /\ activeIndex = 0 /\ nextIndex = 0 /\ nextCell = 0
    /\ lastCell = FALSE /\ nextIsAssistant = FALSE
    /\ rawMessages = <<>> /\ messages = <<>>
    /\ success = FALSE /\ err = "none"
    /\ execution = NoExecution
    /\ cancelled = FALSE
    /\ calls = 0 /\ runs = 0
    /\ log = <<>>
    /\ doc0 = cells
    /\ outputs0 = outputs
    /\ dropped = 0
    /\ hist = <<>> /\ prev = <<>> /\ edits = 0
    /\ expansion = NoExpansion /\ reads = <<>>
    /\ xPc = "off" /\ xContent = <<>> /\ xBase = <<>>
    /\ xResult = [content |-> <<>>, warnings |-> <<>>, reads |-> <<>>]

Init == \E doc \in Documents : InitWith(doc, ControllerFiles)

\* Lines 142-151: the catch and the finally, after e was thrown.
Catch(e) ==
    /\ err' = e
    /\ outputs' = AppendExecutionOutput(outputs, execution, "error")
    /\ execution' = EndExecution(execution, success)
    /\ success' = success
    /\ pc' = "done"

\* Lines 141 and 150.
Succeed ==
    /\ success' = TRUE
    /\ execution' = EndExecution(execution, TRUE)
    /\ err' = err
    /\ outputs' = outputs
    /\ pc' = "done"

\* Lines 45-59 (and 72-81 when the cell at A + 1 is reused): the host calls the
\* controller for the code cell at index A, which the editor has in focus.
Start(A) ==
    /\ pc \in {"idle", "done"}
    /\ A \in 0..(Len(cells) - 1)
    /\ cells[A + 1].kind = "code"
    /\ LET c == cells[A + 1]
           nc == cellAt(cells, A + 1)
           ex == [cell |-> ExecutionCell(c.id, nc.id), started |-> 1,
                  ended |-> 0, success |-> FALSE]
       IN  /\ cell' = c.id
           /\ execution' = ex
           /\ outputs' = [outputs EXCEPT ![ex.cell] = <<>>]
           /\ success' = InitialSuccess
           /\ activeIndex' = A
           /\ nextIndex' = A + 1
           /\ nextCell' = nc.id
           /\ lastCell' = (nc.id = c.id)
           /\ nextIsAssistant' = (nc.lang = "assistant")
           /\ IF NeedsResponseCell(nc.id = c.id, nc.lang = "assistant")
              THEN /\ pc' = "preInsert"
                   /\ log' = <<>>
                   /\ rawMessages' = <<>>
                   /\ messages' = <<>>
              ELSE /\ rawMessages' = ExtractMessages(cells, A)
                   /\ messages' = <<>>
                   /\ IF ExtractMessages(cells, A) = <<>>
                      THEN /\ pc' = "runner"
                           /\ log' = <<Event("runnerStart", "run", TRUE)>>
                      ELSE /\ pc' = "expand"
                           /\ log' = <<>>
    /\ focus' = A
    /\ err' = "none"
    /\ cancelled' = FALSE
    /\ calls' = 0
    /\ runs' = runs + 1
    /\ doc0' = cells
    /\ outputs0' = outputs
    /\ dropped' = 0
    /\ hist' = <<>>
    /\ prev' = IF runs = 0 THEN prev
               ELSE Append(prev, [cell |-> cell, lastCell |-> lastCell, log |-> log,
                                  success |-> success])
    /\ expansion' = NoExpansion
    /\ reads' = <<>>
    /\ UNCHANGED <<cells, nextId, files, warnings, xVars, edits>>

\* Lines 60-62 succeed.
PreInsert ==
    /\ pc = "preInsert"
    /\ \E lang \in NewCellLangs :
          cells' = insertCodeCellBelow(cells, focus, nextId, lang)
    /\ focus' = focus + 1
    /\ nextId' = nextId + 1
    /\ log' = Append(log, Event("insert", "pre", TRUE))
    /\ pc' = "preRetag"
    /\ UNCHANGED <<outputs, files, warnings, cell, activeIndex, nextIndex, nextCell,
                   lastCell, nextIsAssistant, rawMessages, messages, success, err,
                   execution, cancelled, calls, runs, doc0, outputs0, dropped, xVars, hist, prev, edits, expansion, reads>>

\* Lines 60-62 throw.
PreInsertFails ==
    /\ pc = "preInsert"
    /\ log' = Append(log, Event("insert", "pre", FALSE))
    /\ Catch("preInsert")
    /\ UNCHANGED <<cells, focus, nextId, files, warnings, cell, activeIndex, nextIndex,
                   nextCell, lastCell, nextIsAssistant, rawMessages, messages,
                   cancelled, calls, runs, doc0, outputs0, dropped, xVars, hist, prev, edits, expansion, reads>>

\* Lines 63-81: the retag succeeds, the cell at A + 1 is fetched again and
\* the messages are extracted.
PreRetag ==
    /\ pc = "preRetag"
    /\ LET doc == changeLanguage(cells, nextIndex, nextIndex + 1, "assistant")
       IN  /\ cells' = doc
           /\ nextCell' = cellAt(doc, nextIndex).id
           /\ rawMessages' = ExtractMessages(doc, activeIndex)
           /\ messages' = <<>>
           /\ IF ExtractMessages(doc, activeIndex) = <<>>
              THEN /\ pc' = "runner"
                   /\ log' = log \o <<Event("retag", "pre", TRUE),
                                      Event("runnerStart", "run", TRUE)>>
              ELSE /\ pc' = "expand"
                   /\ log' = Append(log, Event("retag", "pre", TRUE))
    /\ UNCHANGED <<focus, nextId, outputs, files, warnings, cell, activeIndex, nextIndex,
                   lastCell, nextIsAssistant, success, err, execution, cancelled,
                   calls, runs, doc0, outputs0, dropped, xVars, hist, prev, edits, expansion, reads>>

\* Lines 63-67 throw.
PreRetagFails ==
    /\ pc = "preRetag"
    /\ log' = Append(log, Event("retag", "pre", FALSE))
    /\ Catch("preRetag")
    /\ UNCHANGED <<cells, focus, nextId, files, warnings, cell, activeIndex, nextIndex,
                   nextCell, lastCell, nextIsAssistant, rawMessages, messages,
                   cancelled, calls, runs, doc0, outputs0, dropped, xVars, hist, prev, edits, expansion, reads>>

\* Line 83 calls replacePathWithContent for the next message; lines 6-7.
MessageBegin ==
    /\ pc = "expand"
    /\ Len(messages) < Len(rawMessages)
    /\ ~expansion.open
    /\ LET message == rawMessages[Len(messages) + 1]
       IN  expansion' = [open |-> TRUE,
                         matches |-> matchAll(message.content),
                         issued |-> 0,
                         pending |-> {},
                         st |-> [content |-> message.content, warnings |-> <<>>,
                                 reads |-> <<>>]]
    /\ UNCHANGED <<docVars, files, warnings, pc, cell, activeIndex, nextIndex, nextCell,
                   lastCell, nextIsAssistant, rawMessages, messages, success, err,
                   execution, cancelled, calls, runs, log, doc0, outputs0, dropped,
                   xVars, hist, prev, edits, reads>>

\* Lines 9-13: readFile is called for the next match.
ReadStart ==
    /\ pc = "expand"
    /\ expansion.open
    /\ expansion.issued < Len(expansion.matches)
    /\ MayIssueRead(expansion.pending)
    /\ LET n == expansion.issued + 1
       IN  /\ expansion' = [expansion EXCEPT !.issued = n, !.pending = @ \cup {n}]
           /\ reads' = Append(reads,
                   [message |-> Len(messages) + 1, match |-> n,
                    path |-> absolutePathOf(getNotebookDirectoryPath,
                                            expansion.matches[n].path)])
    /\ UNCHANGED <<docVars, files, warnings, pc, cell, activeIndex, nextIndex, nextCell,
                   lastCell, nextIsAssistant, rawMessages, messages, success, err,
                   execution, cancelled, calls, runs, log, doc0, outputs0, dropped,
                   xVars, hist, prev, edits>>

\* Lines 13-17: the read of match n settles, with the content or with an error.
ReadDone(n) ==
    /\ pc = "expand"
    /\ expansion.open
    /\ n \in expansion.pending
    /\ LET match == expansion.matches[n]
           st == ExpandOne(expansion.st, match, getNotebookDirectoryPath, files)
       IN  /\ expansion' = [expansion EXCEPT !.pending = @ \ {n}, !.st = st]
           /\ warnings' = warnings \o SubSeq(st.warnings, Len(expansion.st.warnings) + 1,
                                              Len(st.warnings))
    /\ UNCHANGED <<docVars, files, pc, cell, activeIndex, nextIndex, nextCell,
                   lastCell, nextIsAssistant, rawMessages, messages, success, err,
                   execution, cancelled, calls, runs, log, doc0, outputs0, dropped,
                   xVars, hist, prev, edits, reads>>

\* Lines 20 and 83-85: the call returns and the message is pushed; after the
\* last message the runner is called (line 121).
MessageDone ==
    /\ pc = "expand"
    /\ expansion.open
    /\ expansion.issued = Len(expansion.matches)
    /\ expansion.pending = {}
    /\ LET message == rawMessages[Len(messages) + 1]
       IN  messages' = Append(messages, [message EXCEPT !.content = expansion.st.content])
    /\ expansion' = NoExpansion
    /\ IF Len(messages) + 1 = Len(rawMessages)
       THEN /\ pc' = AfterExpansion(lastCell)
            /\ log' = IF AfterExpansion(lastCell) = "runner"
                       THEN Append(log, Event("runnerStart", "run", TRUE))
                       ELSE log
       ELSE UNCHANGED <<pc, log>>
    /\ UNCHANGED <<docVars, files, warnings, cell, activeIndex, nextIndex, nextCell,
                   lastCell, nextIsAssistant, rawMessages, success, err, execution,
                   cancelled, calls, runs, doc0, outputs0, dropped, xVars, hist, prev,
                   edits, reads>>

\* The runner calls clearOutput (lines 87-98).
RunnerClearOutput ==
    /\ pc = "runner"
    /\ calls < MaxCalls
    /\ cells' = SetText(cells, nextCell, clearOutput(TextOfCell(cells, nextCell)))
    /\ calls' = calls + 1
    /\ hist' = Append(hist, [op |-> "clear", content |-> <<>>])
    /\ UNCHANGED <<focus, nextId, outputs, files, warnings, pc, cell, activeIndex,
                   nextIndex, nextCell, lastCell, nextIsAssistant, rawMessages, messages,
                   success, err, execution, cancelled, runs, log, doc0, outputs0, dropped,
                   xVars, prev, edits, expansion, reads>>

\* The runner calls appendOutput(content) (lines 100-112).
RunnerAppendOutput(content) ==
    /\ pc = "runner"
    /\ calls < MaxCalls
    /\ cells' = SetText(cells, nextCell,
                      appendOutput(TextOfCell(cells, nextCell), content, cancelled))
    /\ dropped' = IF cancelled THEN dropped + 1 ELSE dropped
    /\ hist' = Append(hist, [op |-> IF cancelled THEN "dropped" ELSE "append",
                              content |-> content])
    /\ calls' = calls + 1
    /\ UNCHANGED <<focus, nextId, outputs, files, warnings, pc, cell, activeIndex,
                   nextIndex, nextCell, lastCell, nextIsAssistant, rawMessages, messages,
                   success, err, execution, cancelled, runs, log, doc0, outputs0, xVars,
                   prev, edits, expansion, reads>>

\* The runner calls appendTrace (lines 114-119).
RunnerAppendTrace ==
    /\ pc = "runner"
    /\ calls < MaxCalls
    /\ outputs' = AppendExecutionOutput(outputs, execution, "stderr")
    /\ calls' = calls + 1
    /\ UNCHANGED <<cells, focus, nextId, files, warnings, pc, cell, activeIndex,
                   nextIndex, nextCell, lastCell, nextIsAssistant, rawMessages, messages,
                   success, err, execution, cancelled, runs, log, doc0, outputs0, dropped,
                   xVars, hist, prev, edits, expansion, reads>>

\* The runner returns (line 128); lines 130 and 141-151 when no cell is appended.
RunnerReturns ==
    /\ pc = "runner"
    /\ log' = Append(log, Event("runnerEnd", "run", TRUE))
    /\ IF AppendsUserCell(lastCell)
       THEN /\ pc' = "postInsert"
            /\ UNCHANGED <<success, err, execution, outputs>>
       ELSE Succeed
    /\ UNCHANGED <<cells, focus, nextId, files, warnings, cell, activeIndex, nextIndex,
                   nextCell, lastCell, nextIsAssistant, rawMessages, messages,
                   cancelled, calls, runs, doc0, outputs0, dropped, xVars, hist, prev, edits, expansion, reads>>

\* The runner raises (line 121 throws).
RunnerRaises ==
    /\ pc = "runner"
    /\ log' = Append(log, Event("runnerEnd", "run", FALSE))
    /\ Catch("runner")
    /\ UNCHANGED <<cells, focus, nextId, files, warnings, cell, activeIndex, nextIndex,
                   nextCell, lastCell, nextIsAssistant, rawMessages, messages,
                   cancelled, calls, runs, doc0, outputs0, dropped, xVars, hist, prev, edits, expansion, reads>>

\* Lines 131-133 succeed.
PostInsert ==
    /\ pc = "postInsert"
    /\ \E lang \in NewCellLangs :
          cells' = insertCodeCellBelow(cells, focus, nextId, lang)
    /\ focus' = focus + 1
    /\ nextId' = nextId + 1
    /\ log' = Append(log, Event("insert", "post", TRUE))
    /\ pc' = "postRetag"
    /\ UNCHANGED <<outputs, files, warnings, cell, activeIndex, nextIndex, nextCell,
                   lastCell, nextIsAssistant, rawMessages, messages, success, err,
                   execution, cancelled, calls, runs, doc0, outputs0, dropped, xVars, hist, prev, edits, expansion, reads>>

\* Lines 131-133 throw.
PostInsertFails ==
    /\ pc = "postInsert"
    /\ log' = Append(log, Event("insert", "post", FALSE))
    /\ Catch("postInsert")
    /\ UNCHANGED <<cells, focus, nextId, files, warnings, cell, activeIndex, nextIndex,
                   nextCell, lastCell, nextIsAssistant, rawMessages, messages,
                   cancelled, calls, runs, doc0, outputs0, dropped, xVars, hist, prev, edits, expansion, reads>>

\* Lines 134-151: the retag succeeds and the run ends.
PostRetag ==
    /\ pc = "postRetag"
    /\ cells' = changeLanguage(cells, nextIndex + 1, nextIndex + 2, "user")
    /\ log' = Append(log, Event("retag", "post", TRUE))
    /\ Succeed
    /\ UNCHANGED <<focus, nextId, files, warnings, cell, activeIndex, nextIndex,
                   nextCell, lastCell, nextIsAssistant, rawMessages, messages,
                   cancelled, calls, runs, doc0, outputs0, dropped, xVars, hist, prev, edits, expansion, reads>>

\* Lines 134-138 throw.
PostRetagFails ==
    /\ pc = "postRetag"
    /\ log' = Append(log, Event("retag", "post", FALSE))
    /\ Catch("postRetag")
    /\ UNCHANGED <<cells, focus, nextId, files, warnings, cell, activeIndex, nextIndex,
                   nextCell, lastCell, nextIsAssistant, rawMessages, messages,
                   cancelled, calls, runs, doc0, outputs0, dropped, xVars, hist, prev, edits, expansion, reads>>

\* The host signals the execution's cancellation token.
Cancel ==
    /\ pc \notin {"idle", "done"}
    /\ ~cancelled
    /\ cancelled' = TRUE
    /\ UNCHANGED <<docVars, files, warnings, pc, cell, activeIndex, nextIndex, nextCell,
                   lastCell, nextIsAssistant, rawMessages, messages, success, err,
                   execution, calls, runs, log, doc0, outputs0, dropped, xVars, hist, prev, edits, expansion, reads>>

Next ==
    \/ \E A \in 0..(IdCap - 1) : runs < MaxRuns /\ Start(A)
    \/ PreInsert
    \/ PreInsertFails
    \/ PreRetag
    \/ PreRetagFails
    \/ MessageBegin
    \/ ReadStart
    \/ \E n \in expansion.pending : ReadDone(n)
    \/ MessageDone
    \/ RunnerClearOutput
    \/ \E content \in Chunks : RunnerAppendOutput(content)
    \/ RunnerAppendTrace
    \/ RunnerReturns
    \/ RunnerRaises
    \/ PostInsert
    \/ PostInsertFails
    \/ PostRetag
    \/ PostRetagFails
    \/ Cancel

Spec == Init /\ [][Next]_vars

(***************************************************************************)
(* PART 5.  Properties of a run                                            *)
(***************************************************************************)

IdsOf(doc) == { doc[i].id : i \in 1..Len(doc) }

\* The run was triggered on the last cell of the document.
ActiveWasLast == activeIndex = Len(doc0) - 1

\* The run was triggered on a cell whose successor is not tagged "assistant".
SuccessorNotAssistant ==
    activeIndex < Len(doc0) - 1 /\ doc0[activeIndex + 2].lang # "assistant"

Logged(ev, phase, ok) == \E i \in 1..Len(log) : log[i] = Event(ev, phase, ok)

\* The run is over and nothing was thrown: the runner returned and every
\* host command succeeded.
RunSucceeded == pc = "done" /\ Logged("runnerEnd", "run", TRUE)
                            /\ \A i \in 1..Len(log) : log[i].ok

\* C1: after a run on the last cell A in which the runner returns and the
\* host commands succeed, the document has exactly two more cells, the cell
\* at A + 1 is tagged "assistant", the cell at A + 2 is tagged "user", and
\* the cells 0..A (kind, language tag and text) are as they were.
C1_LastCellGainsTwoCells ==
    (RunSucceeded /\ ActiveWasLast) =>
        /\ Len(cells) = Len(doc0) + 2
        /\ cells[activeIndex + 2].lang = "assistant"
        /\ cells[activeIndex + 3].lang = "user"
        /\ cells[activeIndex + 2].id \notin IdsOf(doc0)
        /\ cells[activeIndex + 3].id \notin IdsOf(doc0)
        /\ SubSeq(cells, 1, activeIndex + 1) = doc0

C1_Witness ==
    /\ RunSucceeded /\ ActiveWasLast
    /\ Len(doc0) = 2
    /\ Len(cells) = 4
    /\ cells[3].text = <<"y">>

\* C2: when the active cell A is not last and its successor is not tagged
\* "assistant", then from the call of the runner to the end of the run
\* (however the runner ends) the document has exactly one more cell than
\* before: a new cell at A + 1 tagged "assistant", the former successor at
\* A + 2 unchanged, all other cells at their places, one insert command
\* issued and no trailing cell appended.
C2_SuccessorNotAssistantGainsOne ==
    (SuccessorNotAssistant /\ Logged("runnerStart", "run", TRUE)) =>
        /\ Len(cells) = Len(doc0) + 1
        /\ cells[activeIndex + 2].lang = "assistant"
        /\ cells[activeIndex + 2].id \notin IdsOf(doc0)
        /\ cells[activeIndex + 3] = doc0[activeIndex + 2]
        /\ SubSeq(cells, 1, activeIndex + 1) = SubSeq(doc0, 1, activeIndex + 1)
        /\ SubSeq(cells, activeIndex + 3, Len(cells)) = SubSeq(doc0, activeIndex + 2, Len(doc0))
        /\ Cardinality({ i \in 1..Len(log) : log[i].ev = "insert" }) = 1
        /\ ~Logged("insert", "post", TRUE) /\ ~Logged("insert", "post", FALSE)

C2_Witness ==
    /\ SuccessorNotAssistant
    /\ RunSucceeded
    /\ doc0[activeIndex + 2].lang = "user"
    /\ cells[activeIndex + 2].text = <<"y">>

\* The runner raised and the run is over.
RunnerRaised == pc = "done" /\ Logged("runnerEnd", "run", FALSE)

\* C3: when the runner raises, the execution is ended with success = false
\* and no trailing cell is appended, also when the active cell was last: the
\* document is the one before the run with, when a response cell was inserted,
\* that one assistant-tagged cell at A + 1.
C3_RunnerRaisesNoUserCell ==
    RunnerRaised =>
        /\ execution.ended = 1
        /\ execution.success = FALSE
        /\ ~Logged("insert", "post", TRUE)
        /\ IF ActiveWasLast \/ SuccessorNotAssistant
           THEN /\ Len(cells) = Len(doc0) + 1
                /\ cells[activeIndex + 2].lang = "assistant"
                /\ cells[activeIndex + 2].id \notin IdsOf(doc0)
                /\ SubSeq(cells, 1, activeIndex + 1) = SubSeq(doc0, 1, activeIndex + 1)
                /\ SubSeq(cells, activeIndex + 3, Len(cells))
                       = SubSeq(doc0, activeIndex + 2, Len(doc0))
           ELSE /\ Len(cells) = Len(doc0)
                /\ \A i \in 1..Len(cells) : /\ cells[i].id = doc0[i].id
                                            /\ cells[i].lang = doc0[i].lang

C3_Witness ==
    /\ RunnerRaised
    /\ ActiveWasLast
    /\ Len(cells) = Len(doc0) + 1
    /\ cells[Len(cells)].lang = "assistant"
    /\ cells[Len(cells)].text = <<"y">>

\* The run is over and something was thrown (lines 142-148 ran).
RunFailed == pc = "done" /\ \E i \in 1..Len(log) : ~log[i].ok

\* A cell tagged "assistant" stands right after the active cell.
ResponseCellInPlace ==
    /\ activeIndex + 2 <= Len(cells)
    /\ cells[activeIndex + 2].lang = "assistant"

ErrorEntries(id) == { i \in 1..Len(outputs[id]) : outputs[id][i] = "error" }

ControllerStep ==
    \/ PreInsert \/ PreInsertFails \/ PreRetag \/ PreRetagFails
    \/ MessageBegin \/ ReadStart \/ (\E n \in expansion.pending : ReadDone(n)) \/ MessageDone
    \/ RunnerReturns \/ RunnerRaises
    \/ PostInsert \/ PostInsertFails \/ PostRetag \/ PostRetagFails

\* The states in which ControllerStep is enabled, from the guards of its actions.
CanStep ==
    \/ pc \in {"preInsert", "preRetag", "runner", "postInsert", "postRetag"}
    \/ pc = "expand" /\ Len(messages) < Len(rawMessages)

\* CanStep is ENABLED ControllerStep.
CanStepIsEnabled == CanStep <=> ENABLED ControllerStep

\* C5: the execution handle is ended exactly once on every exit path, after
\* it was started, with the value of the success flag: while a run is under
\* way the execution is started and not ended and the controller can take a
\* step (it is never left un-ended with nothing to do), and once the run is
\* over it was ended once, with the flag.
C5_EndedExactlyOnce ==
    /\ execution.ended <= 1
    /\ pc = "idle" => execution = NoExecution
    /\ pc \notin {"idle", "done"} =>
          /\ execution.started = 1 /\ execution.ended = 0
          /\ CanStep
    /\ pc = "done" =>
          /\ execution.started = 1 /\ execution.ended = 1
          /\ execution.success = success

C5_Witness ==
    /\ pc = "done"
    /\ execution.ended = 1
    /\ Logged("retag", "post", FALSE)

\* The runner returned and, when the active cell was last, the trailing cell
\* was inserted and tagged.
RunnerAndPostStepsCompleted ==
    /\ Logged("runnerEnd", "run", TRUE)
    /\ ActiveWasLast => Logged("insert", "post", TRUE) /\ Logged("retag", "post", TRUE)

\* C6: the execution is ended with success = true if and only if the runner
\* returned and every post-run topology step completed without raising; a
\* runner that returns followed by a failing insert or retag gives false.
C6_SuccessIffAllCompleted ==
    pc = "done" => (execution.success = TRUE <=> RunnerAndPostStepsCompleted)

C6_Witness ==
    /\ pc = "done"
    /\ Logged("runnerEnd", "run", TRUE)
    /\ Logged("insert", "post", TRUE)
    /\ Logged("retag", "post", FALSE)
    /\ execution.success = FALSE

\* The text of the response cell, the cell clearOutput and appendOutput edit.
ResponseText == TextOfCell(cells, nextCell)

\* C7: a call of appendOutput made while the cancellation token is signalled
\* applies no edit: it leaves every cell, the response cell included, exactly
\* as it was, whenever in the run it is made.
C7_CancelledAppendIsNoOp ==
    [][ (cancelled /\ \E content \in Chunks : RunnerAppendOutput(content))
            => cells' = cells ]_vars

\* An appendOutput before the cancellation took effect and one after it was dropped.
C7_Witness ==
    /\ pc = "runner"
    /\ cancelled
    /\ nextCell \notin IdsOf(doc0)
    /\ calls = 2
    /\ dropped = 1
    /\ outputs[cell] = <<>>
    /\ ResponseText = <<"y">>

IsTopology(e) == e.ev \in {"insert", "retag"}

\* C8: the pre-run topology commands (insert the response cell, retag it) are
\* issued and complete before the runner is called, the post-run ones (insert
\* the trailing cell, retag it) are issued only after the runner has returned,
\* and none is issued while the runner is in progress.
C8_TopologyAroundRunner ==
    /\ \A i \in 1..Len(log) :
          /\ (IsTopology(log[i]) /\ log[i].phase = "pre") =>
                \A j \in 1..i : log[j].ev # "runnerStart"
          /\ (IsTopology(log[i]) /\ log[i].phase = "post") =>
                \E j \in 1..i : log[j] = Event("runnerEnd", "run", TRUE)
          /\ log[i].ev = "runnerEnd" =>
                i > 1 /\ log[i - 1].ev = "runnerStart"
    /\ pc = "runner" => log[Len(log)].ev = "runnerStart"
    /\ (Logged("runnerStart", "run", TRUE) /\ (ActiveWasLast \/ SuccessorNotAssistant)) =>
          /\ Len(log) >= 3
          /\ log[1] = Event("insert", "pre", TRUE)
          /\ log[2] = Event("retag", "pre", TRUE)
          /\ log[3].ev = "runnerStart"

C8_Witness ==
    /\ pc = "done"
    /\ log = << Event("insert", "pre", TRUE), Event("retag", "pre", TRUE),
                Event("runnerStart", "run", TRUE), Event("runnerEnd", "run", TRUE),
                Event("insert", "post", TRUE), Event("retag", "post", TRUE) >>

\* The indices (1-based) of the code cells of the document up to the active cell.
CodeCellsUpToActive == { i \in 1..(activeIndex + 1) : doc0[i].kind = "code" }

\* C9: the messages handed to the runner are one per code cell with index at
\* most A, in increasing index order, each with the cell's language tag as
\* its role (and the cell's expanded text as its content); markup cells and
\* the cells after A, the response cell included, give no message.
C9_MessagesAreCodeCellsUpToActive ==
    Logged("runnerStart", "run", TRUE) =>
        /\ Len(messages) = Cardinality(CodeCellsUpToActive)
        /\ \A i \in CodeCellsUpToActive :
              LET k == Cardinality({ j \in CodeCellsUpToActive : j <= i })
              IN  /\ messages[k].role = doc0[i].lang
                  /\ messages[k].role = cells[i].lang
                  /\ messages[k].content
                        = replacePathWithContent(doc0[i].text, getNotebookDirectoryPath,
                                                 files).content

C9_Witness ==
    /\ pc = "runner"
    /\ Len(doc0) = 2
    /\ doc0[1].kind = "markup"
    /\ activeIndex = 1
    /\ Len(cells) = 3
    /\ messages = <<[content |-> <<"A">>, role |-> "user"]>>

(***************************************************************************)
(* PART 4.  replacePathWithContent called on its own                       *)
(***************************************************************************)

\* The pieces an input text is made of.
Pieces == { TokA, TokB, TokAbs, <<"x">>, <<"$">> }

RECURSIVE Flatten(_)
Flatten(ss) == IF ss = <<>> THEN <<>> ELSE Head(ss) \o Flatten(Tail(ss))

Inputs == UNION { { Flatten(ps) : ps \in [1..n -> Pieces] } : n \in 0..MaxPieces }

\* What a file may hold: nothing, a letter, several lines, the replacement
\* patterns of String.prototype.replace, and the text of a token.
FileContents == { <<>>, <<"A">>, <<"l", "\n", "m">>, <<"$", "&">>, <<"$", "$">>, TokB }

Missing == <<"missing">>

\* The file systems: each of the two files is missing or holds one of the contents.
FileSystems ==
    { [p \in { q \in {PathA, PathB} : (IF q = PathA THEN a ELSE b) # Missing } |->
          IF p = PathA THEN a ELSE b] :
      a \in FileContents \cup {Missing}, b \in FileContents \cup {Missing} }

XInit ==
    /\ cells = WithIds(<<[kind |-> "code", lang |-> "user", text |-> <<"x">>]>>)
    /\ focus = 0
    /\ nextId = 2
    /\ outputs = [i \in Ids |-> <<>>]
    /\ files \in FileSystems
    /\ warnings = <<>>
    /\ pc = "idle"
    /\ cell = 0 /\ activeIndex = 0 /\ nextIndex = 0 /\ nextCell = 0
    /\ lastCell = FALSE /\ nextIsAssistant = FALSE
    /\ rawMessages = <<>> /\ messages = <<>>
    /\ success = FALSE /\ err = "none"
    /\ execution = NoExecution
    /\ cancelled = FALSE
    /\ calls = 0 /\ runs = 0
    /\ log = <<>>
    /\ doc0 = cells
    /\ outputs0 = outputs
    /\ dropped = 0
    /\ hist = <<>> /\ prev = <<>> /\ edits = 0
    /\ expansion = NoExpansion /\ reads = <<>>
    /\ xPc = "call"
    /\ xContent \in Inputs
    /\ xBase = getNotebookDirectoryPath
    /\ xResult = [content |-> <<>>, warnings |-> <<>>, reads |-> <<>>]

\* Lines 5-21: the call returns.
XCall ==
    /\ xPc = "call"
    /\ xResult' = replacePathWithContent(xContent, xBase, files)
    /\ warnings' = warnings \o replacePathWithContent(xContent, xBase, files).warnings
    /\ xPc' = "ret"
    /\ UNCHANGED <<docVars, files, pc, runVars, xContent, xBase>>

XNext == XCall

ExpandSpec == XInit /\ [][XNext]_vars

(***************************************************************************)
(* PART 6.  Properties of replacePathWithContent                           *)
(***************************************************************************)

\* The file a match refers to.
FileOf(match) == pathJoin(xBase, trimEnd(match.path))

\* Every token of the input refers to a readable file.
AllReadable ==
    \A n \in 1..Len(matchAll(xContent)) : Readable(files, FileOf(matchAll(xContent)[n]))

\* The text s from position from on, with the matches ms[n], ms[n + 1], ...
\* replaced, each where it was matched, by the verbatim content of its file.
RECURSIVE ReplacedInPlace(_, _, _, _)
ReplacedInPlace(s, ms, n, from) ==
    IF n > Len(ms) THEN SubSeq(s, from, Len(s))
    ELSE SubSeq(s, from, ms[n].start - 1)
            \o files[FileOf(ms[n])]
            \o ReplacedInPlace(s, ms, n + 1, ms[n].end + 1)

\* C10: for an input whose tokens all refer to readable files, the result is
\* the input with each token, at the position where it was matched, replaced
\* by the verbatim content of its file, whatever that content is; with no
\* token the input is returned unchanged.
C10_TokensReplacedInPlaceVerbatim ==
    (xPc = "ret" /\ AllReadable) =>
        xResult.content = ReplacedInPlace(xContent, matchAll(xContent), 1, 1)

\* The matches of the input whose file cannot be read / can be read.
IsUnreadable(match) == ~Readable(files, FileOf(match))

IsReadable(match) == Readable(files, FileOf(match))

\* The number of places where t occurs in s.
Occurrences(s, t) ==
    Cardinality({ i \in 1..(Len(s) - Len(t) + 1) : SubSeq(s, i, i + Len(t) - 1) = t })

\* The replace of line 14 applied for ms[n], ms[n + 1], ... in turn.
RECURSIVE ReplacedInTurn(_, _, _)
ReplacedInTurn(s, ms, n) ==
    IF n > Len(ms) THEN s
    ELSE ReplacedInTurn(StringReplace(s, ms[n].text, files[FileOf(ms[n])]), ms, n + 1)

\* The text s from position from on, with each readable match of ms[n],
\* ms[n + 1], ... replaced where it was matched by the content of its file and
\* each unreadable one left as it is.
RECURSIVE ReadableReplacedInPlace(_, _, _, _)
ReadableReplacedInPlace(s, ms, n, from) ==
    IF n > Len(ms) THEN SubSeq(s, from, Len(s))
    ELSE SubSeq(s, from, ms[n].start - 1)
            \o (IF IsReadable(ms[n]) THEN files[FileOf(ms[n])] ELSE ms[n].text)
            \o ReadableReplacedInPlace(s, ms, n + 1, ms[n].end + 1)

\* No readable file of the input holds a replacement pattern or a token.
PlainFiles ==
    \A n \in 1..Len(matchAll(xContent)) :
        IsReadable(matchAll(xContent)[n]) =>
            \A i \in 1..Len(files[FileOf(matchAll(xContent)[n])]) :
                files[FileOf(matchAll(xContent)[n])][i] \notin {"$", "<"}

\* C11: a token whose file cannot be read stays in the result as it was
\* (markers included), gives exactly one warning for that occurrence, naming
\* its path, in match order; the call returns, and every token of the input is
\* processed: a read is attempted for each, and the result is the input with
\* the replace applied for the readable tokens and for them alone (for files
\* free of replacement patterns and tokens: each readable token replaced
\* where it was matched, each unreadable one left in place).
C11_UnreadableTokenKeptWithOneWarning ==
    xPc = "ret" =>
        LET ms == matchAll(xContent)
            bad == SelectSeq(ms, IsUnreadable)
        IN  /\ xResult.warnings = [k \in 1..Len(bad) |-> bad[k].path]
            /\ warnings = xResult.warnings
            /\ Len(xResult.reads) = Len(ms)
            /\ xResult.content = ReplacedInTurn(xContent, SelectSeq(ms, IsReadable), 1)
            /\ \A n \in 1..Len(ms) :
                  IsUnreadable(ms[n]) =>
                      Occurrences(xResult.content, ms[n].text) >= Occurrences(xContent, ms[n].text)
            /\ PlainFiles => xResult.content = ReadableReplacedInPlace(xContent, ms, 1, 1)

\* An unreadable token before a readable one: the first is kept and warned
\* about, the second is replaced.
C11_Witness ==
    /\ xPc = "ret"
    /\ xContent = TokB \o TokA
    /\ PathB \notin DOMAIN files
    /\ PathA \in DOMAIN files /\ files[PathA] = <<"A">>
    /\ xResult.content = TokB \o <<"A">>
    /\ Len(xResult.warnings) = 1

\* A path that is absolute or relative to the home directory.
IsAbsolutePath(p) ==
    /\ p # <<>>
    /\ \/ Head(p) \in PathSep \cup {"~"}
       \/ Len(p) >= 2 /\ p[1] \in Letters /\ p[2] = ":"

\* The path of a token resolved against the base only when it is not
\* absolute already.
ResolvedPath(basePath, filePath) ==
    IF IsAbsolutePath(trimEnd(filePath))
    THEN trimEnd(filePath)
    ELSE pathJoin(basePath, trimEnd(filePath))

\* C12: the path read for a token is the token's path with its trailing
\* whitespace trimmed, prefixed with the base only when it is relative: an
\* absolute or home-relative path is read as it is.
C12_PathResolvedUnlessAbsolute ==
    xPc = "ret" =>
        \A n \in 1..Len(matchAll(xContent)) :
            xResult.reads[n] = ResolvedPath(xBase, matchAll(xContent)[n].path)

\* The part of C12 that holds: the path of a relative token is trimmed and
\* prefixed with the base.
RelativePathJoinedToBase ==
    xPc = "ret" =>
        \A n \in 1..Len(matchAll(xContent)) :
            ~IsAbsolutePath(matchAll(xContent)[n].path) =>
                xResult.reads[n] = ResolvedPath(xBase, matchAll(xContent)[n].path)

(***************************************************************************)
(* PART 7.  Properties of the response cell's text                         *)
(***************************************************************************)

\* The run was triggered on a cell that is not last and whose successor is
\* tagged "assistant" already.
SuccessorIsAssistant ==
    activeIndex < Len(doc0) - 1 /\ doc0[activeIndex + 2].lang = "assistant"

\* The runner was called in this run.
RunnerInvoked == Logged("runnerStart", "run", TRUE)

\* The strings appended by the calls h, in call order.
RECURSIVE Appended(_)
Appended(h) ==
    IF h = <<>> THEN <<>>
    ELSE (IF Head(h).op = "append" THEN Head(h).content ELSE <<>>) \o Appended(Tail(h))

\* The runner has called appendOutput only, with the token not signalled.
AppendOnly == \A i \in 1..Len(hist) : hist[i].op = "append"

\* C13 (as claimed): when the cell at A + 1 is tagged "assistant" already, no
\* cell is inserted, that cell is the response cell, and the controller itself
\* clears its prior text: with a runner that only calls appendOutput the text
\* of the response cell is the concatenation of the appended strings, with
\* none of the text the cell held before.
C13_ReusedCellClearedBySession ==
    (pc \in {"runner", "done"} /\ SuccessorIsAssistant /\ RunnerInvoked /\ AppendOnly) =>
        /\ Len(cells) = Len(doc0)
        /\ nextCell = doc0[activeIndex + 2].id
        /\ ResponseText = Appended(hist)

\* C13 (amended): no cell is inserted and the cell at A + 1 is the response
\* cell, and the controller leaves its text alone: when the runner is called
\* the cell holds the text it held before the run, and with a runner that
\* only calls appendOutput its text is that prior text followed by the
\* appended strings.
C13_ReusedCellKeepsPriorText ==
    (pc # "idle" /\ SuccessorIsAssistant) =>
        /\ Len(cells) = Len(doc0)
        /\ ~Logged("insert", "pre", TRUE) /\ ~Logged("insert", "post", TRUE)
        /\ nextCell = doc0[activeIndex + 2].id
        /\ (RunnerInvoked /\ AppendOnly) =>
              ResponseText = doc0[activeIndex + 2].text \o Appended(hist)

\* A run that reused the cell holding "o" ended after two appends.
C13_Witness ==
    /\ pc = "done"
    /\ SuccessorIsAssistant
    /\ execution.success
    /\ Len(hist) = 2 /\ AppendOnly
    /\ ResponseText = <<"o", "y", "y">>

(***************************************************************************)
(* PART 8.  Runs that follow one another on the same cell                  *)
(***************************************************************************)

\* The host calls the controller again and again for the same cell, each run
\* after the one before is over; the runner makes no call.
RerunNext ==
    \/ \E A \in 0..(IdCap - 1) :
          /\ runs < MaxReruns
          /\ Start(A)
          /\ runs = 0 \/ cells[A + 1].id = cell
    \/ PreInsert
    \/ PreInsertFails
    \/ PreRetag
    \/ PreRetagFails
    \/ MessageBegin
    \/ ReadStart
    \/ \E n \in expansion.pending : ReadDone(n)
    \/ MessageDone
    \/ RunnerReturns
    \/ RunnerRaises
    \/ PostInsert
    \/ PostInsertFails
    \/ PostRetag
    \/ PostRetagFails

RerunSpec == Init /\ [][RerunNext]_vars

\* The host commands of a log that ran before the runner.
HasPreInsert(l) == \E i \in 1..Len(l) : l[i].ev = "insert" /\ l[i].phase = "pre"

\* A log in which a response cell was inserted and tagged "assistant".
InsertedResponseCell(l) ==
    /\ \E i \in 1..Len(l) : l[i] = Event("insert", "pre", TRUE)
    /\ \E i \in 1..Len(l) : l[i] = Event("retag", "pre", TRUE)

\* A log in which the runner was called.
ReachedRunner(l) == \E i \in 1..Len(l) : l[i] = Event("runnerStart", "run", TRUE)

\* The logs of the runs so far, the current one included.
LogsSoFar == [i \in 1..Len(prev) |-> prev[i].log] \o <<log>>

\* The cell at A + 1 is tagged "assistant" whenever the runner is running.
AssistantAtRunner ==
    pc = "runner" =>
        /\ activeIndex + 2 <= Len(cells)
        /\ cells[activeIndex + 2].lang = "assistant"

\* At most one assistant-tagged response cell was inserted by the runs so far.
AtMostOneResponseCellInserted ==
    Cardinality({ i \in 1..Len(LogsSoFar) : InsertedResponseCell(LogsSoFar[i]) }) <= 1

\* The current run reuses the cell at A + 1 and has run no insert command
\* before the runner.
ReusesResponseCell ==
    /\ ~HasPreInsert(log)
    /\ activeIndex + 2 <= Len(doc0)
    /\ doc0[activeIndex + 2].lang = "assistant"
    /\ nextCell = doc0[activeIndex + 2].id

\* C14 (as claimed): over runs on the same cell A, the cell at A + 1 is tagged
\* "assistant" at every runner invocation, at most one assistant-tagged
\* response cell is ever inserted, and the second and every later run reuses
\* the cell at A + 1 and inserts nothing before the runner.
C14_SecondRunAlwaysReuses ==
    /\ AssistantAtRunner
    /\ AtMostOneResponseCellInserted
    /\ runs >= 2 => ReusesResponseCell

\* C14 (amended): the same, but the reuse holds for the runs that follow a run
\* whose runner was called; a run that follows only runs whose insert or retag
\* before the runner failed inserts a response cell again.
C14_RunAfterRunnerReuses ==
    /\ AssistantAtRunner
    /\ AtMostOneResponseCellInserted
    /\ (\E i \in 1..Len(prev) : ReachedRunner(prev[i].log)) => ReusesResponseCell

\* The first run inserted the response cell and called the runner; the
\* second one is at its runner with the same cell and no insertion.
C14_Witness ==
    /\ runs = 2
    /\ pc = "runner"
    /\ InsertedResponseCell(prev[1].log)
    /\ ReusesResponseCell
    /\ Len(cells) = Len(doc0)

(***************************************************************************)
(* PART 9.  Failures before the runner, and cancellation                   *)
(***************************************************************************)

\* A host command that runs before the runner has failed in this run.
PreRunCommandFailed ==
    Logged("insert", "pre", FALSE) \/ Logged("retag", "pre", FALSE)

\* C15: when the insert or the retag that precedes the runner fails, the run
\* is over at once: the runner is never called, no message is extracted and
\* no file is read, one error entry is recorded as the last output of the
\* execution's cell, the execution is ended once with success = false, and the
\* failed command is the last thing the run did (nothing is retried).
C15_PreRunFailureSkipsRunner ==
    PreRunCommandFailed =>
        /\ pc = "done"
        /\ \A i \in 1..Len(log) : log[i].ev \notin {"runnerStart", "runnerEnd"}
        /\ calls = 0 /\ hist = <<>>
        /\ rawMessages = <<>> /\ messages = <<>>
        /\ reads = <<>> /\ expansion = NoExpansion
        /\ Cardinality(ErrorEntries(execution.cell)) = 1
        /\ outputs[execution.cell] = <<"error">>
        /\ execution.ended = 1 /\ execution.success = FALSE
        /\ ~log[Len(log)].ok
        /\ \A i \in 1..(Len(log) - 1) : log[i].ok
        /\ Len(log) <= 2
        /\ Len(cells) = Len(doc0) + (IF Logged("insert", "pre", TRUE) THEN 1 ELSE 0)

\* The retag of the new cell failed.
C15_Witness ==
    /\ pc = "done"
    /\ Logged("insert", "pre", TRUE)
    /\ Logged("retag", "pre", FALSE)
    /\ outputs[execution.cell] = <<"error">>
    /\ ~execution.success

(***************************************************************************)
(* PART 10.  The runner's calls of clearOutput and appendOutput, with two  *)
(* different strings and the token never signalled                         *)
(***************************************************************************)

\* What the runner may pass to appendOutput when the order of the strings is
\* looked at.
ChunksInOrder == {<<"y">>, <<"z">>}

\* One run; every host command succeeds and the token is not signalled.
CallNext ==
    \/ \E A \in 0..(IdCap - 1) : runs < 1 /\ Start(A)
    \/ PreInsert
    \/ PreRetag
    \/ MessageBegin
    \/ ReadStart
    \/ \E n \in expansion.pending : ReadDone(n)
    \/ MessageDone
    \/ RunnerClearOutput
    \/ \E content \in ChunksInOrder : RunnerAppendOutput(content)
    \/ RunnerAppendTrace
    \/ RunnerReturns
    \/ PostInsert
    \/ PostRetag

CallSpec == Init /\ [][CallNext]_vars

\* The text a cell held when the runner was called: the text it had before
\* the run, or none for a cell the run inserted.
TextAtRunnerStart(id) == IF id \in IdsOf(doc0) THEN TextOfCell(doc0, id) ELSE <<>>

\* The position in h of the most recent clearOutput, 0 when there is none.
LastClear(h) ==
    IF \E i \in 1..Len(h) : h[i].op = "clear"
    THEN CHOOSE i \in 1..Len(h) :
            h[i].op = "clear" /\ \A j \in (i + 1)..Len(h) : h[j].op # "clear"
    ELSE 0

\* C16: with the token never signalled, after each call of clearOutput or
\* appendOutput the text of the response cell is the concatenation, in call
\* order, of the strings appended since the most recent clearOutput, or, when
\* clearOutput was never called, the text the cell held when the runner was
\* called followed by all the appended strings; no other cell's text changes.
C16_TextIsAppendsSinceLastClear ==
    (RunnerInvoked /\ dropped = 0) =>
        /\ ResponseText =
              IF LastClear(hist) = 0
              THEN TextAtRunnerStart(nextCell) \o Appended(hist)
              ELSE Appended(SubSeq(hist, LastClear(hist) + 1, Len(hist)))
        /\ \A i \in 1..Len(cells) :
              cells[i].id # nextCell =>
                  cells[i].text = TextAtRunnerStart(cells[i].id)

\* Two different strings appended to a reused cell that held "o".
C16_Witness ==
    /\ pc = "runner"
    /\ SuccessorIsAssistant
    /\ hist = <<[op |-> "append", content |-> <<"y">>],
                [op |-> "append", content |-> <<"z">>]>>
    /\ ResponseText = <<"o", "y", "z">>

\* A string appended after the text was cleared.
AppendAfterClear ==
    /\ pc = "runner"
    /\ SuccessorIsAssistant
    /\ hist = <<[op |-> "clear", content |-> <<>>],
                [op |-> "append", content |-> <<"z">>]>>
    /\ ResponseText = <<"z">>

(***************************************************************************)
(* PART 11.  The file reads of a run                                       *)
(***************************************************************************)

\* Cells whose texts hold tokens: two in the first, one in the second.
ReadCellKinds ==
    { [kind |-> "code", lang |-> "user", text |-> TokB \o TokA],
      [kind |-> "code", lang |-> "assistant", text |-> TokA] }

ReadDocuments ==
    UNION { { WithIds(shape) : shape \in [1..n -> ReadCellKinds] } : n \in 1..MaxCells }

\* Each of the two files is there or is missing.
ReadFileSystems ==
    { [p \in ps |-> IF p = PathA THEN <<"A">> ELSE <<"B">>] : ps \in SUBSET {PathA, PathB} }

ReadInit == \E doc \in ReadDocuments, fsys \in ReadFileSystems : InitWith(doc, fsys)

\* One run; every host command succeeds and the runner returns at once.
ReadNext ==
    \/ \E A \in 0..(IdCap - 1) : runs < 1 /\ Start(A)
    \/ PreInsert
    \/ PreRetag
    \/ MessageBegin
    \/ ReadStart
    \/ \E n \in expansion.pending : ReadDone(n)
    \/ MessageDone
    \/ RunnerReturns
    \/ PostInsert
    \/ PostRetag

ReadSpec == ReadInit /\ [][ReadNext]_vars

\* The reads of message i, in match order.
ReadsOfMessage(i) ==
    LET ms == matchAll(rawMessages[i].content)
    IN  [n \in 1..Len(ms) |->
            [message |-> i, match |-> n,
             path |-> pathJoin(getNotebookDirectoryPath, trimEnd(ms[n].path))]]

\* The reads of messages 1..k, in conversation order.
RECURSIVE ReadsUpTo(_)
ReadsUpTo(k) == IF k = 0 THEN <<>> ELSE ReadsUpTo(k - 1) \o ReadsOfMessage(k)

\* The warning of a read that failed: the path as the token gives it.
WarningOf(r) == matchAll(rawMessages[r.message].content)[r.match].path

ReadFails(r) == ~Readable(files, r.path)

\* The reads that have settled: all those issued but the ones in flight.
SettledReads == SubSeq(reads, 1, Len(reads) - Cardinality(expansion.pending))

\* C17: the file reads of a run are sequential and ordered: at most one read
\* is in flight; the reads are issued message by message in conversation
\* order and, within a message, token by token in match order; all the reads
\* of a message are issued and have settled before the message is pushed and
\* the next one is begun; the warnings come in the order of the failed reads;
\* and the runner is called only when every message is expanded.
C17_ReadsSequentialAndOrdered ==
    pc # "idle" =>
        /\ Cardinality(expansion.pending) <= 1
        /\ Len(reads) <= Len(ReadsUpTo(Len(rawMessages)))
        /\ reads = SubSeq(ReadsUpTo(Len(rawMessages)), 1, Len(reads))
        /\ Len(reads) >= Len(ReadsUpTo(Len(messages)))
        /\ ~expansion.open => reads = ReadsUpTo(Len(messages))
        /\ expansion.open => Len(reads) <= Len(ReadsUpTo(Len(messages) + 1))
        /\ LET failed == SelectSeq(SettledReads, ReadFails)
           IN  warnings = [k \in 1..Len(failed) |-> WarningOf(failed[k])]
        /\ RunnerInvoked =>
              /\ Len(messages) = Len(rawMessages)
              /\ reads = ReadsUpTo(Len(rawMessages))
              /\ ~expansion.open /\ expansion.pending = {}
              /\ \A i \in 1..Len(messages) :
                    messages[i].content =
                        replacePathWithContent(rawMessages[i].content,
                                               getNotebookDirectoryPath, files).content

\* Two messages, three tokens, no file: three reads and three warnings, in
\* order, before the runner is called.
C17_Witness ==
    /\ pc = "runner"
    /\ calls = 0
    /\ Len(rawMessages) = 2
    /\ [i \in 1..Len(reads) |-> reads[i].path] = <<PathB, PathA, PathA>>
    /\ [i \in 1..Len(reads) |-> reads[i].message] = <<1, 1, 2>>
    /\ warnings = <<<<"b", " ">>, <<"a">>, <<"a">>>>

(***************************************************************************)
(* PART 12.  Another editor changes the document while a run is suspended  *)
(* at the awaits of lines 60 and 63                                        *)
(***************************************************************************)

\* Another editor inserts a cell at index i; the focus stays on its cell.
OtherInsert(i) ==
    /\ pc \in {"preInsert", "preRetag"}
    /\ edits < MaxEdits
    /\ i \in 0..Len(cells)
    /\ \E lang \in NewCellLangs :
          cells' = SubSeq(cells, 1, i)
                      \o <<[id |-> nextId, kind |-> "code", lang |-> lang, text |-> <<>>]>>
                      \o SubSeq(cells, i + 1, Len(cells))
    /\ focus' = IF i <= focus THEN focus + 1 ELSE focus
    /\ nextId' = nextId + 1
    /\ edits' = edits + 1
    /\ UNCHANGED <<outputs, files, warnings, pc, cell, activeIndex, nextIndex, nextCell,
                   lastCell, nextIsAssistant, rawMessages, messages, success, err,
                   execution, cancelled, calls, runs, log, doc0, outputs0, dropped,
                   xVars, hist, prev, expansion, reads>>

\* Another editor removes the cell at index i, which is neither the cell the
\* run was triggered on nor the only cell; the focus stays on its cell, or
\* goes to the cell that takes the place of the removed one.
OtherRemove(i) ==
    /\ pc \in {"preInsert", "preRetag"}
    /\ edits < MaxEdits
    /\ i \in 0..(Len(cells) - 1)
    /\ cells[i + 1].id # cell
    /\ cells' = SubSeq(cells, 1, i) \o SubSeq(cells, i + 2, Len(cells))
    /\ focus' = IF i < focus THEN focus - 1 ELSE Min(focus, Len(cells) - 2)
    /\ edits' = edits + 1
    /\ UNCHANGED <<nextId, outputs, files, warnings, pc, cell, activeIndex, nextIndex,
                   nextCell, lastCell, nextIsAssistant, rawMessages, messages, success,
                   err, execution, cancelled, calls, runs, log, doc0, outputs0, dropped,
                   xVars, hist, prev, expansion, reads>>

\* One run, every host command succeeding, with the other editor at work
\* before the insert and before the retag.
RaceNext ==
    \/ \E A \in 0..(IdCap - 1) : runs < 1 /\ Start(A)
    \/ \E i \in 0..IdCap : OtherInsert(i)
    \/ \E i \in 0..IdCap : OtherRemove(i)
    \/ PreInsert
    \/ PreRetag
    \/ MessageBegin
    \/ ReadStart
    \/ \E n \in expansion.pending : ReadDone(n)
    \/ MessageDone
    \/ RunnerClearOutput
    \/ \E content \in Chunks : RunnerAppendOutput(content)
    \/ RunnerReturns
    \/ PostInsert
    \/ PostRetag

RaceSpec == Init /\ [][RaceNext]_vars

\* C18: with another editor inserting or removing cells while the run is
\* suspended before the insert and before the retag, the cell that
\* clearOutput and appendOutput edit is still the response cell of this run:
\* a cell tagged "assistant" that stands right after the active cell, and the
\* newly inserted one when the run has inserted a cell; never a stale or a
\* different cell.
C18_EditsTargetResponseCell ==
    pc = "runner" =>
        /\ IndexOfCell(cells, cell) >= 0
        /\ IndexOfCell(cells, nextCell) = IndexOfCell(cells, cell) + 1
        /\ cells[IndexOfCell(cells, nextCell) + 1].lang = "assistant"
        /\ HasPreInsert(log) => nextCell \notin IdsOf(doc0)

\* Without the other editor the same statement holds.
EditsTargetResponseCellWhenAlone ==
    (pc = "runner" /\ edits = 0) =>
        /\ IndexOfCell(cells, nextCell) = IndexOfCell(cells, cell) + 1
        /\ cells[IndexOfCell(cells, nextCell) + 1].lang = "assistant"
        /\ HasPreInsert(log) => nextCell \notin IdsOf(doc0)

(***************************************************************************)
(* PART 13.  Cancellation                                                  *)
(***************************************************************************)

\* The calls of h of kind op.
CallsOf(h, op) == { i \in 1..Len(h) : h[i].op = op }

\* The trace entries among the outputs of the execution's cell.
TraceEntries == { i \in 1..Len(outputs[execution.cell]) : outputs[execution.cell][i] = "stderr" }

\* C19: the cancellation token suppresses appendOutput and nothing else.
\* Whatever the token, every clearOutput empties the response cell (the text
\* is what the clears and the appends made with the token not signalled give,
\* the dropped appends apart) and every appendTrace adds its entry (the calls
\* that are neither a clear nor an append are the trace entries); a run
\* whose runner returns after the token was signalled still appends the
\* trailing user cell when the active cell was last and is ended with
\* success = true; and a run only fails when a command or the runner threw.
C19_CancellationSuppressesAppendOnly ==
    pc \notin {"idle"} =>
        /\ RunnerInvoked =>
              ResponseText =
                  IF LastClear(hist) = 0
                  THEN TextAtRunnerStart(nextCell) \o Appended(hist)
                  ELSE Appended(SubSeq(hist, LastClear(hist) + 1, Len(hist)))
        /\ Cardinality(TraceEntries) = calls - Len(hist)
        /\ Cardinality(CallsOf(hist, "dropped")) = dropped
        /\ (dropped > 0) => cancelled
        /\ (pc = "done" /\ \A i \in 1..Len(log) : log[i].ok) =>
              /\ execution.success
              /\ ActiveWasLast =>
                    /\ Len(cells) = Len(doc0) + 2
                    /\ cells[activeIndex + 3].lang = "user"
        /\ (pc = "done" /\ ~execution.success) => \E i \in 1..Len(log) : ~log[i].ok
        /\ (pc \notin {"done"}) => CanStep

\* The token was signalled before the runner's two calls, on the last cell:
\* the append was dropped, the trace was recorded, the user cell was appended
\* and the run succeeded.
C19_Witness ==
    /\ pc = "done"
    /\ cancelled
    /\ execution.success
    /\ ActiveWasLast
    /\ calls = 2
    /\ hist = <<[op |-> "dropped", content |-> <<"y">>]>>
    /\ outputs[execution.cell] = <<"stderr">>
    /\ ResponseText = <<>>
    /\ Len(cells) = Len(doc0) + 2
    /\ cells[activeIndex + 3].lang = "user"

\* A clearOutput made after the token was signalled emptied the reused cell.
ClearAfterCancel ==
    /\ pc = "done"
    /\ SuccessorIsAssistant
    /\ execution.success
    /\ hist = <<[op |-> "dropped", content |-> <<"y">>], [op |-> "clear", content |-> <<>>]>>
    /\ ResponseText = <<>>

(***************************************************************************)
(* PART 14.  The trailing user cell over several runs                      *)
(***************************************************************************)

\* An insert command ran after the runner in this run.
HasPostInsert == \E i \in 1..Len(log) : log[i].ev = "insert" /\ log[i].phase = "post"

\* An earlier run was triggered on the last cell and its runner raised.
EarlierRunOnLastCellFailedInRunner ==
    \E i \in 1..Len(prev) :
        /\ prev[i].lastCell
        /\ \E j \in 1..Len(prev[i].log) : prev[i].log[j] = Event("runnerEnd", "run", FALSE)

\* C20: whether the trailing user cell is appended depends only on whether
\* the active cell was last when the current run started. A successful run
\* appends it exactly when the active cell was last; so after a run on the
\* last cell A that failed in the runner, leaving the assistant cell at A + 1,
\* a successful run on A reuses that cell and appends nothing: the document
\* ends at the assistant cell, with no user cell.
C20_UserCellOnlyWhenActiveWasLast ==
    (pc = "done" /\ execution.success) =>
        /\ HasPostInsert <=> ActiveWasLast
        /\ Len(cells) = Len(doc0) + (IF ActiveWasLast THEN 2
                                     ELSE IF SuccessorNotAssistant THEN 1 ELSE 0)
        /\ EarlierRunOnLastCellFailedInRunner =>
              /\ ReusesResponseCell
              /\ ~HasPostInsert
              /\ cells = doc0
              /\ Len(cells) = activeIndex + 2
              /\ cells[Len(cells)].id = nextCell
              /\ cells[Len(cells)].lang = "assistant"

\* The first run on the last cell failed in the runner, the second succeeded:
\* the document ends at the assistant cell.
C20_Witness ==
    /\ runs = 2
    /\ pc = "done"
    /\ execution.success
    /\ EarlierRunOnLastCellFailedInRunner
    /\ Len(cells) = activeIndex + 2
    /\ cells[Len(cells)].lang = "assistant"
    /\ \A i \in 1..Len(cells) : cells[i].lang # "user" \/ i <= activeIndex + 1

====
